---------------------------- MODULE Spec2Model ----------------------------
(***************************************************************************)
(* Model of src/bin/bf.py: the brainfuck() engine (loop resolver followed  *)
(* by the execution loop).  Positions are 0-based as in the source; the    *)
(* instruction sequence is a TLA+ sequence, so position k is code[k + 1].  *)
(***************************************************************************)
EXTENDS Integers, Sequences, FiniteSets, TLC

(***************************************************************************)
(* Bounds of the model.                                                    *)
(***************************************************************************)
MaxLen == 3
MaxInp == 1
MaxSteps == 24
LoopSteps == 800
MaxStart == 260
MaxRaw == 3

(***************************************************************************)
(* Program constants.                                                      *)
(***************************************************************************)
CELL_SZ == 2^8 - 1
TAPE_SZ == 30000

Alphabet == {">", "<", "+", "-", ".", ",", "[", "]"}

SeqsUpTo(S, n) == UNION {[1..k -> S] : k \in 0..n}

(***************************************************************************)
(* Instruction sequences handed to the engine: every sequence over the     *)
(* alphabet up to MaxLen, and some longer ones (nested loops, reads past   *)
(* the end of the input, text before and after an unmatched bracket).      *)
(***************************************************************************)
LongPrograms ==
    { <<"[", "[", "]", "]">>,
      <<"[", "]", "[", "[", "]", "]">>,
      <<"[", "[", "]", "[", "]", "]">>,
      <<"+", "[", "[", "-", "]", "]">>,
      <<"+", "[", "-", "]">>,
      <<",", "[", "-", "]">>,
      <<",", "[", ".", "-", "]">>,
      <<"+", "[", ">", "+", "<", "-", "]">>,
      <<",", ".", ",", ".">>,
      <<",", ">", ",", ">", ",">>,
      <<"+", "+", ".", "]">>,
      <<"+", ".", "]", "[", "]">>,
      <<"+", ".", "[", "[", "]">>,
      <<"[", "[", "[", "]">>,
      <<"[", "+", "[", "[">>,
      <<"+", "+", "[", "-", "]">>,
      <<"[", "+", "]", "+", "+", "[", "-", "]">>,
      <<"+", ".", "+", ".">>,
      <<"-", "[", "+", "]">>,
      <<"+", "[", ".", "]">>,
      <<",", "[", ",", "]">>,
      <<"+", ">", "+", "<", "-">>,
      <<"<", "+", ">", "-", "<", ".">> }

Programs == SeqsUpTo(Alphabet, MaxLen) \cup LongPrograms

(***************************************************************************)
(* input_data is either a str (the declared parameter type and default,    *)
(* line 71) or the list of ints that __main__ builds (lines 184-187).      *)
(* items holds the code points of the str, or the ints of the list.        *)
(***************************************************************************)
CodePoints == {65, 255}
ListInts == {65}

InputDatas ==
    {[ty |-> "str", items |-> s] : s \in SeqsUpTo(CodePoints, MaxInp)}
    \cup {[ty |-> "list", items |-> s] : s \in SeqsUpTo(ListInts, MaxInp) \ {<<>>}}

(* Lines typed by the user at an interactive read (sequences of code points). *)
Lines == {<<>>, <<32>>, <<65, 66>>, <<32, 1, 32>>, <<92, 110>>, <<255>>}

Modes == 0..3

VARIABLES code, use_dynamic_io, input_data,
          pc, tape, loop_map, loop_stk, p, i, inp_i, output, stdout, err, steps,
          limit, run, first, raw, args

vars == <<code, use_dynamic_io, input_data,
          pc, tape, loop_map, loop_stk, p, i, inp_i, output, stdout, err, steps,
          limit, run, first, raw, args>>

params == <<code, use_dynamic_io, input_data>>

(***************************************************************************)
(* What no step of the engine touches: the step budget of the run, which   *)
(* invocation of the engine this is and what the first one returned, and   *)
(* the command line's file text and parsed arguments.                      *)
(***************************************************************************)
env == <<limit, run, first, raw, args>>

(***************************************************************************)
(* The tape, [0] * TAPE_SZ, is kept as the function of its nonzero cells.  *)
(***************************************************************************)
Cell(t, q) == IF q \in DOMAIN t THEN t[q] ELSE 0

SetCellFresh(t, q, v) == IF v = 0 THEN [x \in {} |-> 0] ELSE [x \in {q} |-> v]

SetCell(t, q, v) ==
    IF v = 0
    THEN [x \in DOMAIN t \ {q} |-> t[x]]
    ELSE [x \in DOMAIN t \cup {q} |-> IF x = q THEN v ELSE t[x]]

EmptyTape == [x \in {} |-> 0]

NoErr == [kind |-> "None", what |-> "", pos |-> 0]
SyntaxError(what, pos) == [kind |-> "SyntaxError", what |-> what, pos |-> pos]
TypeError == [kind |-> "TypeError", what |-> "ord", pos |-> 0]
UnicodeDecodeError == [kind |-> "UnicodeDecodeError", what |-> "unicode_escape", pos |-> 0]
KeyError(k) == [kind |-> "KeyError", what |-> "loop_map", pos |-> k]

At(k) == code[k + 1]

NoRun == [code |-> <<>>, input_data |-> [ty |-> "str", items |-> <<>>], pc |-> "none",
          output |-> <<>>, tape |-> EmptyTape, loop_map |-> [x \in {} |-> 0], err |-> NoErr]

(* An argument that was not given is None, written <<>>; a given one is <<value>>. *)
NoArgs == [input |-> "none", dynamic_io |-> <<>>, dynamic_clean_io |-> <<>>, tape_output |-> <<>>]

(* A direct call of brainfuck(code, use_dynamic_io, input_data). *)
DirectCall(budget) ==
    /\ limit = budget
    /\ run = "alone"
    /\ first = NoRun
    /\ raw = <<>>
    /\ args = NoArgs

Init ==
    /\ DirectCall(MaxSteps)
    /\ code \in Programs
    /\ \/ use_dynamic_io = 0 /\ input_data \in InputDatas
       \/ use_dynamic_io \in Modes \ {0} /\ input_data = [ty |-> "str", items |-> <<>>]
    /\ pc = "scan"
    /\ tape = EmptyTape
    /\ loop_map = [x \in {} |-> 0]
    /\ loop_stk = <<>>
    /\ i = 0
    /\ p = 0
    /\ inp_i = 0
    /\ output = <<>>
    /\ stdout = <<>>
    /\ err = NoErr
    /\ steps = 0

(***************************************************************************)
(* Loop resolver, lines 89-101.                                            *)
(***************************************************************************)
Push(stk, k) == Append(stk, k)
FirstPending(stk) == stk[1]

Top(stk) == stk[Len(stk)]

Pop(stk) == SubSeq(stk, 1, Len(stk) - 1)

RecordOneWay(m, a, b) ==
    [x \in DOMAIN m \cup {a} |-> IF x = a THEN b ELSE m[x]]

RecordBackOnly(m, a, b) ==
    [x \in DOMAIN m \cup {b} |-> IF x = b THEN a ELSE m[x]]

Record(m, a, b) ==
    [x \in DOMAIN m \cup {a, b} |-> IF x = a THEN b ELSE IF x = b THEN a ELSE m[x]]

BottomOpenPos(stk) == stk[1]

UnmatchedOpenPos(stk) == stk[Len(stk)]

Raise(e) ==
    /\ pc' = "raised"
    /\ err' = e

ScanOpen ==
    /\ pc = "scan" /\ i < Len(code) /\ At(i) = "["
    /\ loop_stk' = Push(loop_stk, i)
    /\ i' = i + 1
    /\ UNCHANGED <<params, env, pc, tape, loop_map, p, inp_i, output, stdout, err, steps>>

ScanClose ==
    /\ pc = "scan" /\ i < Len(code) /\ At(i) = "]"
    /\ loop_stk # <<>>
    /\ loop_map' = Record(loop_map, Top(loop_stk), i)
    /\ loop_stk' = Pop(loop_stk)
    /\ i' = i + 1
    /\ UNCHANGED <<params, env, pc, tape, p, inp_i, output, stdout, err, steps>>

ScanCloseIgnored ==
    /\ pc = "scan" /\ i < Len(code) /\ At(i) = "]"
    /\ loop_stk = <<>>
    /\ i' = i + 1
    /\ UNCHANGED <<params, env, pc, tape, loop_map, loop_stk, p, inp_i, output, stdout, err, steps>>

ScanCloseUnmatched ==
    /\ pc = "scan" /\ i < Len(code) /\ At(i) = "]"
    /\ loop_stk = <<>>
    /\ Raise(SyntaxError("]", i))
    /\ UNCHANGED <<params, env, tape, loop_map, loop_stk, p, i, inp_i, output, stdout, steps>>

ScanOther ==
    /\ pc = "scan" /\ i < Len(code) /\ At(i) \notin {"[", "]"}
    /\ i' = i + 1
    /\ UNCHANGED <<params, env, pc, tape, loop_map, loop_stk, p, inp_i, output, stdout, err, steps>>

ScanEndUnmatched ==
    /\ pc = "scan" /\ i = Len(code)
    /\ loop_stk # <<>>
    /\ Raise(SyntaxError("[", UnmatchedOpenPos(loop_stk)))
    /\ UNCHANGED <<params, env, tape, loop_map, loop_stk, p, i, inp_i, output, stdout, steps>>

Banner == [tag |-> "banner", ch |-> 0]

StartRunUnchecked ==
    /\ pc = "scan" /\ i = Len(code)
    /\ p' = 0 /\ i' = 0 /\ inp_i' = 0
    /\ output' = <<>>
    /\ stdout' = Append(stdout, Banner)
    /\ pc' = "run"
    /\ UNCHANGED <<params, env, tape, loop_map, loop_stk, err, steps>>

StartRun ==
    /\ pc = "scan" /\ i = Len(code)
    /\ loop_stk = <<>>
    /\ p' = 0 /\ i' = 0 /\ inp_i' = 0
    /\ output' = <<>>
    /\ stdout' = Append(stdout, Banner)
    /\ pc' = "run"
    /\ UNCHANGED <<params, env, tape, loop_map, loop_stk, err, steps>>

(***************************************************************************)
(* Execution loop, lines 104-143.                                          *)
(***************************************************************************)
MoveRight(q) == (q + 1) % TAPE_SZ
MoveLeftUnwrapped(q) == q - 1

MoveLeft(q) == (q - 1) % TAPE_SZ

IncCellByte(v) == (v + 1) % 2^8

IncCell(v) == (v + 1) % CELL_SZ
DecCell(v) == (v - 1) % CELL_SZ

Running(c) == pc = "run" /\ i < Len(code) /\ At(i) = c /\ steps < limit

Right ==
    /\ Running(">")
    /\ p' = MoveRight(p)
    /\ i' = i + 1
    /\ steps' = steps + 1
    /\ UNCHANGED <<params, env, pc, tape, loop_map, loop_stk, inp_i, output, stdout, err>>

Left ==
    /\ Running("<")
    /\ p' = MoveLeft(p)
    /\ i' = i + 1
    /\ steps' = steps + 1
    /\ UNCHANGED <<params, env, pc, tape, loop_map, loop_stk, inp_i, output, stdout, err>>

Inc ==
    /\ Running("+")
    /\ tape' = SetCell(tape, p, IncCell(Cell(tape, p)))
    /\ i' = i + 1
    /\ steps' = steps + 1
    /\ UNCHANGED <<params, env, pc, loop_map, loop_stk, p, inp_i, output, stdout, err>>

Dec ==
    /\ Running("-")
    /\ tape' = SetCell(tape, p, DecCell(Cell(tape, p)))
    /\ i' = i + 1
    /\ steps' = steps + 1
    /\ UNCHANGED <<params, env, pc, loop_map, loop_stk, p, inp_i, output, stdout, err>>

(* "." : lines 117-124.  chr(tape[p]) is kept as its code point. *)
OutStaticPrepend ==
    /\ Running(".")
    /\ use_dynamic_io = 0
    /\ output' = <<Cell(tape, p)>> \o output
    /\ i' = i + 1
    /\ steps' = steps + 1
    /\ UNCHANGED <<params, env, pc, tape, loop_map, loop_stk, p, inp_i, stdout, err>>

OutStatic ==
    /\ Running(".")
    /\ use_dynamic_io = 0
    /\ output' = Append(output, Cell(tape, p))
    /\ i' = i + 1
    /\ steps' = steps + 1
    /\ UNCHANGED <<params, env, pc, tape, loop_map, loop_stk, p, inp_i, stdout, err>>

OutDynamic ==
    /\ Running(".")
    /\ use_dynamic_io # 0
    /\ stdout' = Append(stdout, [tag |-> IF use_dynamic_io = 1 THEN "[o]: " ELSE "",
                                 ch |-> Cell(tape, p)])
    /\ i' = i + 1
    /\ steps' = steps + 1
    /\ UNCHANGED <<params, env, pc, tape, loop_map, loop_stk, p, inp_i, output, err>>

(***************************************************************************)
(* ord(x): x is a str (its code points) or an int.  ord raises TypeError   *)
(* unless x is a str of length 1.                                          *)
(***************************************************************************)
StrOf(s) == [ty |-> "str", s |-> s]
IntOf(n) == [ty |-> "int", s |-> <<n>>]
OrdOK(x) == x.ty = "str" /\ Len(x.s) = 1
Ord(x) == x.s[1]

(* input_data[k]: a one-character str of a str, an int of a list. *)
Item(data, k) ==
    IF data.ty = "str" THEN StrOf(<<data.items[k + 1]>>) ELSE IntOf(data.items[k + 1])

(* "," in static mode: lines 133-135. *)
InStatic ==
    /\ Running(",")
    /\ use_dynamic_io = 0
    /\ IF inp_i < Len(input_data.items)
       THEN IF OrdOK(Item(input_data, inp_i))
            THEN /\ tape' = SetCell(tape, p, Ord(Item(input_data, inp_i)))
                 /\ inp_i' = inp_i + 1
                 /\ i' = i + 1
                 /\ UNCHANGED <<pc, err>>
            ELSE /\ Raise(TypeError)
                 /\ UNCHANGED <<tape, inp_i, i>>
       ELSE /\ tape' = SetCell(tape, p, 0)
            /\ inp_i' = inp_i + 1
            /\ i' = i + 1
            /\ UNCHANGED <<pc, err>>
    /\ steps' = steps + 1
    /\ UNCHANGED <<params, env, loop_map, loop_stk, p, output, stdout>>

(***************************************************************************)
(* "," in a dynamic mode: lines 126-132.                                   *)
(*   str.strip() drops leading and trailing whitespace;                    *)
(*   bytes(c, "utf-8") is the UTF-8 encoding of the first character;       *)
(*   .decode("unicode_escape") maps each byte to the character of the same *)
(*   code point, and fails on a lone backslash.                            *)
(***************************************************************************)
Whitespace == {9, 10, 11, 12, 13, 28, 29, 30, 31, 32, 133, 160}

RECURSIVE LStrip(_)
LStrip(s) == IF s # <<>> /\ Head(s) \in Whitespace THEN LStrip(Tail(s)) ELSE s

RECURSIVE RStrip(_)
RStrip(s) ==
    IF s # <<>> /\ s[Len(s)] \in Whitespace THEN RStrip(SubSeq(s, 1, Len(s) - 1)) ELSE s

Strip(s) == RStrip(LStrip(s))

Utf8(c) ==
    IF c < 128 THEN <<c>>
    ELSE IF c < 2048 THEN <<192 + (c \div 64), 128 + (c % 64)>>
    ELSE IF c < 65536 THEN <<224 + (c \div 4096), 128 + ((c \div 64) % 64), 128 + (c % 64)>>
    ELSE <<240 + (c \div 262144), 128 + ((c \div 4096) % 64),
           128 + ((c \div 64) % 64), 128 + (c % 64)>>

(* Defined on the encodings of one character: the only backslash is a lone one. *)
EscapeOK(b) == b # <<92>>
UnicodeEscape(b) == StrOf(b)

Prompt == [tag |-> "[i]: ", ch |-> 0]

PromptedUnlessPlain(out) == IF use_dynamic_io = 2 THEN out ELSE Append(out, Prompt)

Prompted(out) == IF use_dynamic_io = 1 THEN Append(out, Prompt) ELSE out

InDynamic ==
    /\ Running(",")
    /\ use_dynamic_io # 0
    /\ stdout' = Prompted(stdout)
    /\ \E line \in Lines :
         LET tmp == Strip(line) IN
         IF tmp = <<>>
         THEN /\ tape' = SetCell(tape, p, 0)
              /\ i' = i + 1
              /\ UNCHANGED <<pc, err>>
         ELSE IF ~EscapeOK(Utf8(tmp[1]))
         THEN /\ Raise(UnicodeDecodeError)
              /\ UNCHANGED <<tape, i>>
         ELSE IF ~OrdOK(UnicodeEscape(Utf8(tmp[1])))
         THEN /\ Raise(TypeError)
              /\ UNCHANGED <<tape, i>>
         ELSE /\ tape' = SetCell(tape, p, Ord(UnicodeEscape(Utf8(tmp[1]))))
              /\ i' = i + 1
              /\ UNCHANGED <<pc, err>>
    /\ steps' = steps + 1
    /\ UNCHANGED <<params, env, loop_map, loop_stk, p, inp_i, output>>

(* "[" and "]": lines 136-142, with the i += 1 of line 142. *)
OpenTakenInverted(v) == v # 0

OpenTaken(v) == v = 0

CloseTakenInverted(v) == v = 0

CloseTaken(v) == v # 0

Jump(taken) ==
    IF taken
    THEN IF i \in DOMAIN loop_map
         THEN /\ i' = loop_map[i] + 1
              /\ UNCHANGED <<pc, err>>
         ELSE /\ Raise(KeyError(i))
              /\ UNCHANGED i
    ELSE /\ i' = i + 1
         /\ UNCHANGED <<pc, err>>

LoopOpen ==
    /\ Running("[")
    /\ Jump(OpenTaken(Cell(tape, p)))
    /\ steps' = steps + 1
    /\ UNCHANGED <<params, env, tape, loop_map, loop_stk, p, inp_i, output, stdout>>

LoopClose ==
    /\ Running("]")
    /\ Jump(CloseTaken(Cell(tape, p)))
    /\ steps' = steps + 1
    /\ UNCHANGED <<params, env, tape, loop_map, loop_stk, p, inp_i, output, stdout>>

(* while i < len(code) fails: return output, tape (line 143). *)
Return ==
    /\ pc = "run" /\ ~(i < Len(code))
    /\ pc' = "returned"
    /\ UNCHANGED <<params, env, tape, loop_map, loop_stk, p, i, inp_i, output, stdout, err, steps>>

Next ==
    \/ ScanOpen
    \/ ScanClose
    \/ ScanCloseUnmatched
    \/ ScanOther
    \/ ScanEndUnmatched
    \/ StartRun
    \/ Right
    \/ Left
    \/ Inc
    \/ Dec
    \/ OutStatic
    \/ OutDynamic
    \/ InStatic
    \/ InDynamic
    \/ LoopOpen
    \/ LoopClose
    \/ Return

Spec == Init /\ [][Next]_vars

(***************************************************************************)
(* Runs of the clearing loop "[-]" on a cell set by "+", "-" or ",": the   *)
(* str inputs cover every code point up to MaxStart and the largest one,   *)
(* and the budget LoopSteps is more than the longest of these runs takes.  *)
(* The interpreter is one sequential thread, so a step that can be taken   *)
(* is taken (an interactive read returns once the user has typed a line).  *)
(***************************************************************************)
LoopPrograms ==
    { <<"+", "[", "-", "]">>, <<"-", "[", "-", "]">>, <<",", "[", "-", "]">> }

LoopInputs ==
    {[ty |-> "str", items |-> <<c>>] : c \in (1..MaxStart) \cup {1114111}}
    \cup {[ty |-> "str", items |-> <<>>], [ty |-> "list", items |-> <<65>>]}

InitLoop ==
    /\ DirectCall(LoopSteps)
    /\ code \in LoopPrograms
    /\ \/ use_dynamic_io = 0 /\ input_data \in LoopInputs
       \/ use_dynamic_io \in Modes \ {0} /\ input_data = [ty |-> "str", items |-> <<>>]
    /\ pc = "scan"
    /\ tape = EmptyTape
    /\ loop_map = [x \in {} |-> 0]
    /\ loop_stk = <<>>
    /\ i = 0
    /\ p = 0
    /\ inp_i = 0
    /\ output = <<>>
    /\ stdout = <<>>
    /\ err = NoErr
    /\ steps = 0

NextLoop ==
    \/ ScanOpen
    \/ ScanClose
    \/ ScanOther
    \/ StartRun
    \/ Inc
    \/ Dec
    \/ InStatic
    \/ InDynamic
    \/ LoopOpen
    \/ LoopClose
    \/ Return

SpecLoop == InitLoop /\ [][NextLoop]_vars /\ WF_vars(NextLoop)

(***************************************************************************)
(* Three calls of the engine in one process: a Static call, then any       *)
(* other call, then the first call again.  Every call gets a new frame:    *)
(* tape and loop_map are rebuilt by lines 86-90, and nothing of the        *)
(* function is module-level or a mutable default.  Only the terminal       *)
(* (stdout) is shared.                                                     *)
(***************************************************************************)
RunPrograms ==
    { <<"+", ".">>, <<",", ".">>, <<">", "+", "<", "-">>, <<"+", "+", "[", "-", "]">>,
      <<"[">>, <<"]">>, <<",", ">", ",">>, <<"[", "+", "]">> }

InitRuns ==
    /\ DirectCall(MaxSteps)
    /\ code \in RunPrograms
    /\ use_dynamic_io = 0
    /\ input_data \in InputDatas
    /\ pc = "scan"
    /\ tape = EmptyTape
    /\ loop_map = [x \in {} |-> 0]
    /\ loop_stk = <<>>
    /\ i = 0
    /\ p = 0
    /\ inp_i = 0
    /\ output = <<>>
    /\ stdout = <<>>
    /\ err = NoErr
    /\ steps = 0

Outcome ==
    [code |-> code, input_data |-> input_data, pc |-> pc,
     output |-> output, tape |-> tape, loop_map |-> loop_map, err |-> err]

NewFrameSharedTape ==
    /\ pc' = "scan"
    /\ tape' = tape
    /\ loop_map' = [x \in {} |-> 0]
    /\ loop_stk' = <<>>
    /\ i' = 0 /\ p' = 0 /\ inp_i' = 0
    /\ output' = <<>>
    /\ err' = NoErr
    /\ steps' = 0

NewFrame ==
    /\ pc' = "scan"
    /\ tape' = EmptyTape
    /\ loop_map' = [x \in {} |-> 0]
    /\ loop_stk' = <<>>
    /\ i' = 0 /\ p' = 0 /\ inp_i' = 0
    /\ output' = <<>>
    /\ err' = NoErr
    /\ steps' = 0

InvokeOther ==
    /\ pc \in {"returned", "raised"} /\ run = "alone"
    /\ first' = Outcome
    /\ run' = "other"
    /\ code' \in RunPrograms
    /\ \/ use_dynamic_io' = 0 /\ input_data' \in InputDatas
       \/ use_dynamic_io' \in Modes \ {0} /\ input_data' = [ty |-> "str", items |-> <<>>]
    /\ NewFrame
    /\ UNCHANGED <<stdout, limit, raw, args>>

InvokeAgain ==
    /\ pc \in {"returned", "raised"} /\ run = "other"
    /\ run' = "again"
    /\ code' = first.code
    /\ use_dynamic_io' = 0
    /\ input_data' = first.input_data
    /\ NewFrame
    /\ UNCHANGED <<stdout, limit, first, raw, args>>

NextRuns ==
    \/ Next
    \/ InvokeOther
    \/ InvokeAgain

SpecRuns == InitRuns /\ [][NextRuns]_vars

(***************************************************************************)
(* The command line, lines 146-203.  raw is the text of the input file,    *)
(* args the parsed arguments; code, use_dynamic_io and input_data (inp)    *)
(* are the script's variables of lines 166-187, handed to the engine at    *)
(* line 190.                                                               *)
(***************************************************************************)
RawChars == Alphabet \cup {"a", "\n"}

ArgSets ==
    [input : {"none", "missing", "file"},
     dynamic_io : {<<>>, <<1>>},
     dynamic_clean_io : {<<>>, <<2>>},
     tape_output : {<<>>, <<0>>, <<1>>}]

(* x or 0 *)
OrZero(x) == IF x = <<>> THEN 0 ELSE x[1]

SanitizeNoComma(text) == SelectSeq(text, LAMBDA c : c \in Alphabet \ {","})

(* re.sub(r"[^\>\<\+\-\.\,\[\]]*", "", text) *)
Sanitize(text) == SelectSeq(text, LAMBDA c : c \in Alphabet)

(* code.count(",") *)
Count(text, c) == Cardinality({k \in 1..Len(text) : text[k] = c})

(* s.split("::") on a sequence of code points; 58 is ":". *)
RECURSIVE Split(_)
Split(s) ==
    IF \E k \in 1..(Len(s) - 1) : s[k] = 58 /\ s[k + 1] = 58
    THEN LET k == CHOOSE k \in 1..(Len(s) - 1) :
                    /\ s[k] = 58 /\ s[k + 1] = 58
                    /\ \A j \in 1..(k - 1) : ~(s[j] = 58 /\ s[j + 1] = 58)
         IN  <<SubSeq(s, 1, k - 1)>> \o Split(SubSeq(s, k + 2, Len(s)))
    ELSE <<s>>

(* Lines typed at the "Please fill ..." prompt. *)
EntryLines ==
    {<<>>, <<65>>, <<32, 65, 32>>, <<65, 58, 58, 66>>, <<58, 58>>, <<65, 58, 66>>,
     <<65, 58, 58, 66, 58, 58, 67>>, <<92, 110>>, <<65, 58, 58, 255>>}

(* One entry of lines 184-187: ord(bytes(_[0], "utf-8").decode("unicode_escape") if _ else "\0") *)
EntryOK(e) == e = <<>> \/ (EscapeOK(Utf8(e[1])) /\ OrdOK(UnicodeEscape(Utf8(e[1]))))
EntryErr(e) == IF ~EscapeOK(Utf8(e[1])) THEN UnicodeDecodeError ELSE TypeError
EntryOrd(e) == IF e = <<>> THEN 0 ELSE Ord(UnicodeEscape(Utf8(e[1])))

SizeAtLeast(inp, inp_sz) == Len(inp) >= inp_sz

(* not (len(inp) != inp_sz), line 180 *)
SizeOK(inp, inp_sz) == Len(inp) = inp_sz

Say(tag, n) == [tag |-> tag, ch |-> n]

InitCLI ==
    /\ limit = MaxSteps
    /\ run = "alone"
    /\ first = NoRun
    /\ raw \in SeqsUpTo(RawChars, MaxRaw)
    /\ args \in ArgSets
    /\ args.input # "file" => (raw = <<>> /\ args = [NoArgs EXCEPT !.input = args.input])
    /\ code = <<>>
    /\ use_dynamic_io = 0
    /\ input_data = [ty |-> "list", items |-> <<>>]
    /\ pc = "cli"
    /\ tape = EmptyTape
    /\ loop_map = [x \in {} |-> 0]
    /\ loop_stk = <<>>
    /\ i = 0
    /\ p = 0
    /\ inp_i = 0
    /\ output = <<>>
    /\ stdout = <<>>
    /\ err = NoErr
    /\ steps = 0

engine == <<tape, loop_map, loop_stk, p, i, inp_i, output, steps>>

(* if args.input: fails, line 157. *)
CliNoInput ==
    /\ pc = "cli" /\ args.input = "none"
    /\ pc' = "exit"
    /\ UNCHANGED <<params, env, engine, stdout, err>>

(* Lines 159-161. *)
CliMissingFile ==
    /\ pc = "cli" /\ args.input = "missing"
    /\ stdout' = Append(stdout, Say("Error: File does not exist", 0))
    /\ pc' = "exit"
    /\ UNCHANGED <<params, env, engine, err>>

(* Lines 163-178, and the call of line 190 when no entries are asked for. *)
CliLoad ==
    /\ pc = "cli" /\ args.input = "file"
    /\ code' = Sanitize(raw)
    /\ use_dynamic_io' = OrZero(args.dynamic_clean_io) + OrZero(args.dynamic_io)
    /\ input_data' = [ty |-> "list", items |-> <<>>]
    /\ IF Count(code', ",") # 0 /\ use_dynamic_io' = 0
       THEN /\ stdout' = Append(stdout, Say("Please fill", Count(code', ",")))
            /\ pc' = "cli_entries"
       ELSE /\ stdout' = stdout
            /\ pc' = "scan"
    /\ UNCHANGED <<env, engine, err>>

(* Lines 179-190. *)
CliEntries ==
    /\ pc = "cli_entries"
    /\ \E line \in EntryLines :
         LET inp == Split(Strip(line)) IN
         IF ~SizeOK(inp, Count(code, ","))
         THEN /\ input_data' = [ty |-> "strs", items |-> inp]
              /\ stdout' = Append(stdout, Say("Error: Invalid input size", 0))
              /\ pc' = "exit"
              /\ err' = err
         ELSE IF \E k \in 1..Len(inp) : ~EntryOK(inp[k])
         THEN LET k == CHOOSE k \in 1..Len(inp) :
                          ~EntryOK(inp[k]) /\ \A j \in 1..(k - 1) : EntryOK(inp[j])
              IN  /\ input_data' = [ty |-> "strs", items |-> inp]
                  /\ err' = EntryErr(inp[k])
                  /\ stdout' = Append(stdout, Say("Error: ", 0))
                  /\ pc' = "exit"
         ELSE /\ input_data' = [ty |-> "list", items |-> [k \in 1..Len(inp) |-> EntryOrd(inp[k])]]
              /\ stdout' = stdout
              /\ pc' = "scan"
              /\ err' = err
    /\ UNCHANGED <<code, use_dynamic_io, env, engine>>

(* Lines 192-196 and 203. *)
CliDisplay ==
    /\ pc = "returned"
    /\ stdout' =
          (IF use_dynamic_io = 0
           THEN Append(stdout, Say(">>> Output", 0)) \o [k \in 1..Len(output) |-> Say("", output[k])]
           ELSE stdout)
          \o (IF OrZero(args.tape_output) > 0
              THEN <<Say(">>> Tape Snapshot", 2^OrZero(args.tape_output))>>
              ELSE <<>>)
    /\ pc' = "exit"
    /\ UNCHANGED <<params, env, engine, err>>

(* except Exception as e: print(f"Error: {e}"), lines 200-203. *)
CliExcept ==
    /\ pc = "raised"
    /\ stdout' = Append(stdout, Say("Error: ", 0))
    /\ pc' = "exit"
    /\ UNCHANGED <<params, env, engine, err>>

NextCLI ==
    \/ CliNoInput
    \/ CliMissingFile
    \/ CliLoad
    \/ CliEntries
    \/ Next
    \/ CliDisplay
    \/ CliExcept

SpecCLI == InitCLI /\ [][NextCLI]_vars

(***************************************************************************)
(* Bracket structure of the instruction sequence, read off the sequence    *)
(* itself (not off the resolver's stack or map).                           *)
(***************************************************************************)
Positions == 0..(Len(code) - 1)
BracketPositions == {k \in Positions : At(k) \in {"[", "]"}}

(* Opens minus closes among the first k instructions. *)
Depth(k) ==
    Cardinality({j \in 0..(k - 1) : At(j) = "["}) - Cardinality({j \in 0..(k - 1) : At(j) = "]"})

Balanced == (\A k \in 0..Len(code) : Depth(k) >= 0) /\ Depth(Len(code)) = 0

(* Closes met while nothing is pending. *)
UnmatchedCloses == {k \in Positions : At(k) = "]" /\ Depth(k) = 0 /\ \A j \in 0..k : Depth(j) >= 0}

(* Opens whose depth is never left again. *)
UnmatchedOpens ==
    {k \in Positions : At(k) = "[" /\ \A j \in (k + 1)..Len(code) : Depth(j) > Depth(k)}

Min(S) == CHOOSE x \in S : \A y \in S : x <= y
Max(S) == CHOOSE x \in S : \A y \in S : x >= y

Resolved == pc \in {"run", "returned"} \/ (pc = "raised" /\ err.kind # "SyntaxError")

(***************************************************************************)
(* C1: for a sequence with balanced brackets the resolver succeeds, the    *)
(* jump map has an entry for exactly the bracket positions, and            *)
(* map[map[x]] = x for every bracket position x.                           *)
(***************************************************************************)
C1_JumpMapInvolution ==
    Balanced =>
        /\ err.kind # "SyntaxError"
        /\ Resolved =>
              /\ DOMAIN loop_map = BracketPositions
              /\ \A x \in BracketPositions :
                    /\ loop_map[x] \in DOMAIN loop_map
                    /\ loop_map[loop_map[x]] = x

C1_Witness ==
    /\ Balanced /\ pc = "returned"
    /\ Cardinality(BracketPositions) = 6
    /\ DOMAIN loop_map = BracketPositions

(***************************************************************************)
(* C2: when the scan meets a "]" with no "[" pending, resolution fails     *)
(* with a SyntaxError reporting the position of that (leftmost such) "]",  *)
(* whatever follows it; the scan never goes past it.                       *)
(***************************************************************************)
C2_UnmatchedCloseReported ==
    UnmatchedCloses # {} =>
        /\ pc \in {"scan", "raised"}
        /\ i <= Min(UnmatchedCloses)
        /\ pc = "raised" => err = SyntaxError("]", Min(UnmatchedCloses))

C2_Witness ==
    /\ pc = "raised" /\ err.kind = "SyntaxError" /\ err.what = "]"
    /\ err.pos = 2 /\ Len(code) = 5
    /\ At(3) = "["

(***************************************************************************)
(* C3 as stated: when the scan ends with "[" pending, the SyntaxError      *)
(* reports the earliest (bottom-of-stack) unmatched "[".                   *)
(***************************************************************************)
C3_EarliestOpenReported ==
    (pc = "raised" /\ err.kind = "SyntaxError" /\ err.what = "[") =>
        err.pos = Min(UnmatchedOpens)

(***************************************************************************)
(* C3 amended: when the scan ends with "[" pending, resolution fails with  *)
(* a SyntaxError reporting the latest (top-of-stack) unmatched "[".        *)
(***************************************************************************)
C3_LatestOpenReported ==
    (UnmatchedCloses = {} /\ UnmatchedOpens # {}) =>
        /\ pc \in {"scan", "raised"}
        /\ pc = "raised" => err = SyntaxError("[", Max(UnmatchedOpens))

C3_Witness ==
    /\ pc = "raised" /\ err.kind = "SyntaxError" /\ err.what = "["
    /\ Cardinality(UnmatchedOpens) >= 2
    /\ err.pos # Min(UnmatchedOpens)

(***************************************************************************)
(* C4: with an unmatched bracket anywhere, no instruction is executed: no  *)
(* cell written, no pointer move, no input read, nothing printed or        *)
(* returned.                                                               *)
(***************************************************************************)
C4_NoPartialExecution ==
    ~Balanced =>
        /\ pc \in {"scan", "raised"}
        /\ tape = EmptyTape /\ p = 0 /\ inp_i = 0
        /\ output = <<>> /\ stdout = <<>>
        /\ steps = 0

C4_Witness ==
    /\ pc = "raised" /\ err.kind = "SyntaxError"
    /\ Len(code) >= 3 /\ At(0) = "+" /\ At(1) = "."
    /\ err.pos >= 2

(***************************************************************************)
(* C5 as stated: in Static mode with an input buffer of integer byte       *)
(* values, "," reads the next value without faulting; ",." with [65]       *)
(* returns output code 65 and leaves the read cursor at 1.                 *)
(***************************************************************************)
C5_StaticReadOfIntBuffer ==
    (use_dynamic_io = 0 /\ input_data.ty = "list") =>
        /\ err.kind # "TypeError"
        /\ (code = <<",", ".">> /\ input_data.items = <<65>> /\ pc \in {"returned", "raised"}) =>
              (pc = "returned" /\ output = <<65>> /\ inp_i = 1)

(***************************************************************************)
(* C6 as stated: in Static mode a "," executed with the buffer exhausted   *)
(* sets the current cell to 0, advances the cursor by 1 and does not       *)
(* fault; ",.,." with the one-entry buffer [65] outputs 65 then 0.         *)
(***************************************************************************)
C6_ExhaustedReadYieldsZero ==
    /\ [][(/\ pc = "run" /\ use_dynamic_io = 0 /\ i < Len(code) /\ At(i) = ","
           /\ inp_i >= Len(input_data.items) /\ steps' = steps + 1)
          => (Cell(tape', p) = 0 /\ inp_i' = inp_i + 1 /\ pc' = "run")]_vars
    /\ []((/\ code = <<",", ".", ",", ".">> /\ use_dynamic_io = 0
           /\ input_data.items = <<65>> /\ pc \in {"returned", "raised"})
          => (pc = "returned" /\ output = <<65, 0>>))

(***************************************************************************)
(* C7 as stated: every tape cell holds a value in 0..254 in every          *)
(* reachable state, under every mode and input.                            *)
(***************************************************************************)
C7_CellsBelowModulus == \A q \in DOMAIN tape : tape[q] \in 0..254

(***************************************************************************)
(* C8: "+" replaces the current cell v by (v + 1) mod 255 and "-" by       *)
(* (v - 1) mod 255, non-negative: 254 + 1 gives 0, 0 - 1 gives 254, and    *)
(* on a cell in 0..254 the opposite instruction that follows undoes it.    *)
(***************************************************************************)
C8_CellWraparound ==
    [][LET v == Cell(tape, p)
           w == Cell(tape', p)
           stepOf(c) == pc = "run" /\ i < Len(code) /\ At(i) = c /\ steps' = steps + 1
       IN  /\ stepOf("+") =>
                /\ w \in 0..254
                /\ (v + 1 + 255 - w) % 255 = 0
                /\ v = 254 => w = 0
                /\ (v \in 0..254 /\ i + 1 < Len(code) /\ At(i + 1) = "-") => DecCell(w) = v
           /\ stepOf("-") =>
                /\ w \in 0..254
                /\ (w + 1 + 255 - v) % 255 = 0
                /\ v = 0 => w = 254
                /\ (v \in 0..254 /\ i + 1 < Len(code) /\ At(i + 1) = "+") => IncCell(w) = v
      ]_vars

C8_Witness ==
    /\ pc = "returned" /\ code = <<"-", "+", "-">>
    /\ Cell(tape, 0) = 254

(***************************************************************************)
(* C9: the data pointer stays in 0..TAPE_SZ-1; ">" sets it to              *)
(* (p + 1) mod TAPE_SZ and "<" to (p - 1) mod TAPE_SZ, so left of 0 is     *)
(* TAPE_SZ-1 and right of TAPE_SZ-1 is 0.                                  *)
(***************************************************************************)
C9_PointerWraps ==
    /\ [](p \in 0..(TAPE_SZ - 1))
    /\ [][LET stepOf(c) == pc = "run" /\ i < Len(code) /\ At(i) = c /\ steps' = steps + 1
          IN  /\ stepOf(">") => p' = (IF p = TAPE_SZ - 1 THEN 0 ELSE p + 1)
              /\ stepOf("<") => p' = (IF p = 0 THEN TAPE_SZ - 1 ELSE p - 1)
         ]_vars

C9_Witness ==
    /\ pc = "returned" /\ code = <<"<", "+", ">", "-", "<", ".">>
    /\ p = TAPE_SZ - 1
    /\ Cell(tape, TAPE_SZ - 1) = 1 /\ Cell(tape, 0) = 254

(***************************************************************************)
(* C10: after a bracket at position i the instruction pointer is           *)
(* loop_map[i] + 1 when the branch is taken ("[" on a zero cell, "]" on a  *)
(* nonzero cell) and i + 1 otherwise; a taken "[" lands just past its "]"  *)
(* (the body is skipped), a taken "]" lands just past its "[".             *)
(***************************************************************************)
C10_BracketNextIp ==
    [][(pc = "run" /\ i < Len(code) /\ At(i) \in {"[", "]"} /\ steps' = steps + 1) =>
          LET taken == \/ At(i) = "[" /\ Cell(tape, p) = 0
                       \/ At(i) = "]" /\ Cell(tape, p) # 0
          IN  /\ pc' = "run"
              /\ i' = (IF taken THEN loop_map[i] + 1 ELSE i + 1)
              /\ (taken /\ At(i) = "[") => (i' - 1 > i /\ At(i' - 1) = "]")
              /\ (taken /\ At(i) = "]") => (i' - 1 < i /\ At(i' - 1) = "[")
      ]_vars

C10_Witness ==
    /\ pc = "returned" /\ code = <<"[", "+", "]", "+", "+", "[", "-", "]">>
    /\ steps = 8 /\ tape = EmptyTape

(***************************************************************************)
(* C12: in Static mode each executed "." appends exactly one character,    *)
(* the current cell's value, to the end of output ("++." returns the one   *)
(* character 2 with tape[0] = 2); in a Dynamic mode the returned output    *)
(* is empty however many "." are executed.                                 *)
(***************************************************************************)
C12_OutputAccumulates ==
    /\ [][(pc = "run" /\ i < Len(code) /\ At(i) = "." /\ steps' = steps + 1) =>
             IF use_dynamic_io = 0
             THEN /\ Len(output') = Len(output) + 1
                  /\ output'[Len(output')] = Cell(tape, p)
                  /\ \A k \in 1..Len(output) : output'[k] = output[k]
             ELSE output' = <<>>
         ]_vars
    /\ [](use_dynamic_io # 0 => output = <<>>)
    /\ []((code = <<"+", "+", ".">> /\ use_dynamic_io = 0 /\ pc = "returned")
            => (output = <<2>> /\ Cell(tape, 0) = 2))

C12_Witness ==
    /\ pc = "returned" /\ use_dynamic_io = 0
    /\ code = <<"+", ".", "+", ".">>
    /\ output = <<1, 2>>

(***************************************************************************)
(* C13: once resolution has passed, 0 <= i <= Len(code) throughout the     *)
(* execution loop, no jump-map lookup misses, and the engine returns       *)
(* exactly when i = Len(code).                                             *)
(***************************************************************************)
C13_IpInRangeNoLookupMiss ==
    /\ [](Resolved => (i \in 0..Len(code) /\ err.kind # "KeyError"))
    /\ [](pc = "returned" => i = Len(code))
    /\ [][(pc = "run" /\ i = Len(code)) => pc' = "returned"]_vars
    /\ [][(pc = "run" /\ pc' = "returned") => i = Len(code)]_vars

C13_Witness ==
    /\ pc = "returned" /\ i = Len(code)
    /\ code = <<"+", "[", "[", "-", "]", "]">>
    /\ steps = 6

(***************************************************************************)
(* C17: each instruction changes only its own part of the machine state    *)
(* (tape, data pointer, read cursor, output, jump map, sequence): ">" and  *)
(* "<" only the data pointer; "+", "-" and "," only the cell at the data   *)
(* pointer (and the read cursor for a Static ","); "." only the output;    *)
(* "[" and "]" only the instruction pointer.  The other cells, the jump    *)
(* map, the sequence and the tape length never change.  (What a Dynamic    *)
(* "." or "," writes on the terminal is not machine state.)                *)
(***************************************************************************)
C17_FrameOfEachInstruction ==
    [][(pc = "run" /\ i < Len(code) /\ steps' = steps + 1) =>
          LET c == At(i) IN
          /\ code' = code /\ loop_map' = loop_map
          /\ DOMAIN tape' \subseteq 0..(TAPE_SZ - 1)
          /\ \A q \in (DOMAIN tape \cup DOMAIN tape') \ {p} : Cell(tape', q) = Cell(tape, q)
          /\ c \notin {">", "<"} => p' = p
          /\ c \notin {"+", "-", ","} => tape' = tape
          /\ ~(c = "," /\ use_dynamic_io = 0) => inp_i' = inp_i
          /\ c # "." => (output' = output)
          /\ c \notin {".", ","} => stdout' = stdout
          /\ c \notin {"[", "]"} => (i' = i + 1 \/ (c = "," /\ pc' = "raised" /\ i' = i))
      ]_vars

C17_Witness ==
    /\ pc = "returned" /\ code = <<"<", "+", ">", "-", "<", ".">>
    /\ use_dynamic_io = 0 /\ output = <<1>>
    /\ DOMAIN tape = {0, TAPE_SZ - 1}

(***************************************************************************)
(* C18: for a balanced sequence the jump map pairs each "[" at a with a    *)
(* "]" at b > a such that the instructions strictly between a and b are    *)
(* balanced; distinct loops share no endpoint.                             *)
(***************************************************************************)
BalancedBetween(a, b) ==
    /\ Depth(b) = Depth(a + 1)
    /\ \A j \in (a + 1)..b : Depth(j) >= Depth(a + 1)

C18_ProperlyNestedPartner ==
    (Balanced /\ Resolved) =>
        /\ \A a \in {k \in Positions : At(k) = "["} :
              /\ a \in DOMAIN loop_map
              /\ loop_map[a] \in Positions
              /\ At(loop_map[a]) = "]"
              /\ loop_map[a] > a
              /\ BalancedBetween(a, loop_map[a])
        /\ \A x, y \in DOMAIN loop_map : loop_map[x] = loop_map[y] => x = y

C18_Witness ==
    /\ pc = "returned" /\ code = <<"[", "[", "]", "[", "]", "]">>
    /\ loop_map[0] = 5 /\ loop_map[1] = 2 /\ loop_map[3] = 4

(***************************************************************************)
(* C11: "[-]" entered on a nonzero cell, whatever value "+", "-" or ","    *)
(* put there, terminates with the cell at 0 and the instruction pointer    *)
(* at the end of the sequence.                                             *)
(***************************************************************************)
C11_ClearLoopTerminates ==
    (pc = "run" /\ i = 1 /\ At(i) = "[" /\ Cell(tape, p) # 0)
        ~> (pc = "returned" /\ Cell(tape, p) = 0 /\ i = Len(code))

C11_Witness ==
    /\ pc = "returned" /\ code = <<",", "[", "-", "]">>
    /\ input_data = [ty |-> "str", items |-> <<255>>]
    /\ steps = 512 /\ tape = EmptyTape /\ i = Len(code)

(***************************************************************************)
(* C14: every call starts its execution loop on an all-zero tape with      *)
(* data pointer, instruction pointer and read cursor 0 and empty output,   *)
(* so a Static call repeated after any other call ends as it did alone     *)
(* (same return or exception, output and tape), and the resolver builds    *)
(* the same jump map whenever it is given the same sequence.               *)
(***************************************************************************)
C14_RunsIndependent ==
    /\ (pc = "run" /\ steps = 0) =>
          (tape = EmptyTape /\ p = 0 /\ i = 0 /\ inp_i = 0 /\ output = <<>>)
    /\ (run = "again" /\ pc \in {"returned", "raised"}) =>
          /\ pc = first.pc /\ err = first.err
          /\ output = first.output /\ tape = first.tape
    /\ (run # "alone" /\ code = first.code /\ pc \in {"returned", "raised"}) =>
          loop_map = first.loop_map

C14_Witness ==
    /\ run = "again" /\ pc = "returned"
    /\ code = <<",", ".">> /\ output = <<65>> /\ first.output = <<65>>
    /\ \E k \in 1..Len(stdout) : stdout[k].tag = "[o]: " /\ stdout[k].ch = 1

(***************************************************************************)
(* C15: in Static mode with at least one "," in the sanitized code, the    *)
(* engine is invoked only with as many "::"-separated entries as there     *)
(* are ","; on a mismatch the invalid-size error is printed and the        *)
(* engine is never invoked.  In a Dynamic mode, or without ",", no         *)
(* entries are asked for and the engine is invoked directly.               *)
(***************************************************************************)
(* The engine is running, or has run: it printed its banner or raised before it. *)
Invoked ==
    \/ pc \in {"scan", "run", "returned", "raised"}
    \/ pc = "exit" /\ \E k \in 1..Len(stdout) : stdout[k] = Banner
    \/ pc = "exit" /\ err.kind = "SyntaxError"

Commas == Cardinality({k \in Positions : At(k) = ","})

C15_EntryCountChecked ==
    /\ []((Invoked /\ use_dynamic_io = 0 /\ Commas > 0) =>
             (input_data.ty = "list" /\ Len(input_data.items) = Commas))
    /\ []((input_data.ty = "strs" /\ Len(input_data.items) # Commas) =>
             /\ pc = "exit" /\ ~Invoked /\ steps = 0
             /\ stdout[Len(stdout)].tag = "Error: Invalid input size")
    /\ [][(pc = "cli" /\ args.input = "file") =>
             LET direct == \/ args.dynamic_io # <<>> \/ args.dynamic_clean_io # <<>>
                           \/ \A k \in 1..Len(raw) : raw[k] # ","
             IN  IF direct
                 THEN pc' = "scan" /\ stdout' = stdout
                 ELSE pc' = "cli_entries" /\ stdout'[Len(stdout')].tag = "Please fill"
         ]_vars
    /\ [][pc = "cli_entries" => pc' \in {"scan", "exit"}]_vars

C15_Witness ==
    /\ pc = "exit" /\ use_dynamic_io = 0
    /\ code = <<",", ".", ",">>
    /\ input_data.ty = "strs" /\ Len(input_data.items) = 3
    /\ stdout[Len(stdout)].tag = "Error: Invalid input size"

(***************************************************************************)
(* C16: sanitization keeps exactly the characters of the raw text that     *)
(* are one of the 8 symbols, in their order and multiplicity, and drops    *)
(* the others; sanitizing a sanitized sequence changes nothing.            *)
(***************************************************************************)
C16_SanitizeIsSubsequence ==
    (args.input = "file" /\ pc # "cli") =>
        LET kept == {k \in 1..Len(raw) : raw[k] \in {">", "<", "+", "-", ".", ",", "[", "]"}}
            rank(k) == Cardinality({m \in kept : m <= k})
        IN  /\ Len(code) = Cardinality(kept)
            /\ \A k \in kept : code[rank(k)] = raw[k]
            /\ Sanitize(code) = code

C16_Witness ==
    /\ pc = "exit" /\ raw = <<",", "\n", ".">>
    /\ code = <<",", ".">>

(***************************************************************************)
(* C19 as stated: the mode selector passed to the engine is always one of  *)
(* 0 (Static), 1 (DynamicAnnotated), 2 (DynamicPlain).                     *)
(***************************************************************************)
C19_SelectorIsDefinedMode == Invoked => use_dynamic_io \in {0, 1, 2}

(***************************************************************************)
(* C19 amended: the selector is 0, 1, 2, or 3 when both flags are given    *)
(* (the sum of the two); the engine treats 3 as DynamicPlain: no "[o]: "   *)
(* prefix, no "[i]: " prompt, no static input collected, empty output.     *)
(***************************************************************************)
C19_SelectorIsFlagSum ==
    Invoked =>
        /\ use_dynamic_io = (IF args.dynamic_io # <<>> THEN 1 ELSE 0)
                             + (IF args.dynamic_clean_io # <<>> THEN 2 ELSE 0)
        /\ use_dynamic_io = 3 =>
              /\ \A k \in 1..Len(stdout) : stdout[k].tag \notin {"[o]: ", "[i]: ", "Please fill"}
              /\ input_data = [ty |-> "list", items |-> <<>>]
              /\ inp_i = 0
              /\ output = <<>>

C19_Witness ==
    /\ pc = "exit" /\ use_dynamic_io = 3
    /\ code = <<",", ".">>
    /\ stdout = <<Banner, Say("", 65)>>

=============================================================================
